---- MODULE Spec2Model ----
(***************************************************************************)
(* A model of DependencyGraph (src/src/lib.rs): a table of vertices with   *)
(* slot-addressed outgoing edges, a free list, and a transitive refcount   *)
(* that set_relation / remove_payload maintain through increment.          *)
(*                                                                         *)
(* Conventions.  Option<T> is a sequence of length 0 (None) or 1 (Some).   *)
(* A NodeId is the Rust index plus one, because TLA+ sequences start at 1; *)
(* a slot_id keeps the Rust numbering (0-based) and indexes relations at   *)
(* slot_id + 1.  A panic is recorded in `panic` and ends the run, with the *)
(* graph left as it was when the panic was raised.                         *)
(***************************************************************************)
EXTENDS Integers, Sequences, FiniteSets, TLC

\* ---------------------------------------------------------------- bounds
NumKeys == 3
NumSlots == 2
NumPayloads == 2
MaxDeps == 1
MaxOps == 3
\* the deeper exploration (DeepSpec): one payload value, more calls, and
\* refcounts capped
MaxDeepOps == 6
MaxRefcount == 3
\* the chain scenario (ChainSpec): k1 <- k2 <- ... <- kChainLen
ChainLen == 5
\* the independent-chains scenario (DualSpec): keys 1..DualLen, 1 <- 2, 3 <- 4, ...
DualLen == 6

Keys == 1..NumKeys
SlotIds == 0..(NumSlots - 1)
Payloads == 1..NumPayloads

None == <<>>
Some(x) == <<x>>

\* A RelationLink: the slot it writes and the key it points the slot at
\* (None clears the slot).
RelationLink == [slot_id : SlotIds, key : {None} \cup {Some(k) : k \in Keys}]

SeqsUpTo(S, n) == UNION {[1..m -> S] : m \in 0..n}

Dependencies == SeqsUpTo(RelationLink, MaxDeps)

VARIABLES
    nodes,      \* DependencyGraph.nodes : Vec<Option<Node>>
    vacancies,  \* DependencyGraph.vacancies : Vec<NodeId>
    panic,      \* "none", or the message of the panic that ended the run
    ops         \* the number of calls made on the graph so far

vars == <<nodes, vacancies, panic, ops>>

NoPanic == "none"

\* ------------------------------------------------------------------ Node
NodeNew(key, maybe_payload) ==
    [key |-> key, payload |-> maybe_payload, refcount |-> 0, relations |-> <<>>]

\* DependencyGraph::new.  The record m that the operations below take and
\* return is the graph (nodes, vacancies), the panic that stopped the call if
\* one did, and `log`: the top-level increment calls the operation made, in
\* order, each with the table before and after it.
GraphNew == [nodes |-> <<>>, vacancies |-> <<>>, panic |-> NoPanic, log |-> <<>>]

Raise(m, msg) == [m EXCEPT !.panic = msg]

\* nodes.iter().position(|i| i is Some and i.key == key): 0 when there is none
Position(ns, key) ==
    LET hits == {i \in 1..Len(ns) : ns[i] # None /\ ns[i][1].key = key}
    IN IF hits = {} THEN 0 ELSE CHOOSE i \in hits : \A j \in hits : i <= j

\* relations.iter().filter_map(|r| *r).collect()
RECURSIVE FilterMap(_)
FilterMap(rels) ==
    IF rels = <<>> THEN <<>>
    ELSE (IF Head(rels) = None THEN <<>> ELSE <<Head(rels)[1]>>) \o FilterMap(Tail(rels))

\* ------------------------------------------------------------- increment
\* The recursive walk.  w = [nodes, seen, panic, walk]: the table, the `seen`
\* vector, the panic that stopped the walk if one did, and `walk`: the NodeIds
\* whose refcount the walk has updated, in order.  Returns w after the call.
RECURSIVE increment(_, _, _)
RECURSIVE incrementEach(_, _, _)

\* for rel_node_id in relations { self.increment(rel_node_id, increment, seen) }
incrementEach(w, rels, inc) ==
    IF rels = <<>> \/ w.panic # NoPanic THEN w
    ELSE incrementEach(increment(w, Head(rels), inc), Tail(rels), inc)

\* mutant: the delta is applied before the `seen` test, so a vertex met again
\* (through a cycle or a second path) is counted again
incrementSeenLate(w, node_id, inc) ==
    IF node_id > Len(w.seen) THEN [w EXCEPT !.panic = "index out of bounds"]
    ELSE IF w.nodes[node_id] = None
    THEN [w EXCEPT !.panic = "sanity error. increment for node_id"]
    ELSE LET Node == w.nodes[node_id][1]
             rc   == Node.refcount + inc
             w2   == [w EXCEPT !.nodes[node_id] = Some([Node EXCEPT !.refcount = rc]),
                               !.seen[node_id] = TRUE,
                               !.walk = Append(@, node_id)]
         IN IF rc < 0
            THEN [w2 EXCEPT !.panic = "sanity error. refcount below zero"]
            ELSE IF w.seen[node_id] THEN w2
            ELSE incrementEach(w2, FilterMap(Node.relations), inc)

increment(w, node_id, inc) ==
    IF node_id <= Len(w.seen) /\ w.seen[node_id] THEN w
    ELSE IF node_id > Len(w.seen) THEN [w EXCEPT !.panic = "index out of bounds"]
    ELSE LET w1 == [w EXCEPT !.seen[node_id] = TRUE]
         IN IF w1.nodes[node_id] = None
            THEN [w1 EXCEPT !.panic = "sanity error. increment for node_id"]
            ELSE LET Node == w1.nodes[node_id][1]
                     rc   == Node.refcount + inc
                     w2   == [w1 EXCEPT !.nodes[node_id] =
                                           Some([Node EXCEPT !.refcount = rc]),
                                        !.walk = Append(@, node_id)]
                 IN IF rc < 0
                    THEN [w2 EXCEPT !.panic = "sanity error. refcount below zero"]
                    ELSE incrementEach(w2, FilterMap(Node.relations), inc)

\* One top-level propagation: a fresh `seen` of the given length, and the call
\* appended to the log.
Propagate(m, start, delta, seen_len) ==
    LET w == increment([nodes |-> m.nodes,
                        seen  |-> [i \in 1..seen_len |-> FALSE],
                        panic |-> NoPanic,
                        walk  |-> <<>>], start, delta)
    IN [m EXCEPT !.nodes = w.nodes,
                 !.panic = w.panic,
                 !.log = Append(@, [start |-> start, delta |-> delta,
                                    pre |-> m.nodes, post |-> w.nodes,
                                    walk |-> w.walk,
                                    returned |-> w.panic = NoPanic])]

\* ----------------------------------------------------------- assert_node
\* mutant: the lookup sees only the vertices that have a payload
assert_nodeResidentOnly(m, key) ==
    LET hits == {i \in 1..Len(m.nodes) : /\ m.nodes[i] # None
                                         /\ m.nodes[i][1].key = key
                                         /\ m.nodes[i][1].payload # None}
    IN IF hits # {} THEN [m |-> m, id |-> CHOOSE i \in hits : \A j \in hits : i <= j]
       ELSE IF m.vacancies # <<>>
       THEN LET node_id == m.vacancies[Len(m.vacancies)]
            IN [m |-> [m EXCEPT !.vacancies = SubSeq(@, 1, Len(@) - 1),
                                !.nodes[node_id] = Some(NodeNew(key, None))],
                id |-> node_id]
       ELSE [m |-> [m EXCEPT !.nodes = Append(@, Some(NodeNew(key, None)))],
             id |-> Len(m.nodes) + 1]

\* mutant: the free slot is re-filled but stays on the free list
assert_nodeKeepVacancy(m, key) ==
    LET found == Position(m.nodes, key)
    IN IF found # 0 THEN [m |-> m, id |-> found]
       ELSE IF m.vacancies # <<>>
       THEN LET node_id == m.vacancies[Len(m.vacancies)]
            IN [m |-> [m EXCEPT !.nodes[node_id] = Some(NodeNew(key, None))],
                id |-> node_id]
       ELSE [m |-> [m EXCEPT !.nodes = Append(@, Some(NodeNew(key, None)))],
             id |-> Len(m.nodes) + 1]

\* Returns [m, id]: the graph after the call and the NodeId it returns.
assert_node(m, key) ==
    LET found == Position(m.nodes, key)
    IN IF found # 0 THEN [m |-> m, id |-> found]
       ELSE IF m.vacancies # <<>>
       THEN LET node_id == m.vacancies[Len(m.vacancies)]
            IN [m |-> [m EXCEPT !.vacancies = SubSeq(@, 1, Len(@) - 1),
                                !.nodes[node_id] = Some(NodeNew(key, None))],
                id |-> node_id]
       ELSE [m |-> [m EXCEPT !.nodes = Append(@, Some(NodeNew(key, None)))],
             id |-> Len(m.nodes) + 1]

\* while relations.len() <= slot_id { push(None) }; relations[slot_id] = value
WriteSlot(rels, slot_id, value) ==
    LET grown == rels \o [i \in 1..(slot_id + 1 - Len(rels)) |-> None]
    IN [grown EXCEPT ![slot_id + 1] = value]

\* ---------------------------------------------------------- set_relation
\* mutant: the new target is credited with the edge alone
SlotIncrementUnit(Node) == 1

\* increment = 1 + Node.refcount (line 227)
SlotIncrement(Node) == 1 + Node.refcount

\* decrement = 0 - (1 + Node.refcount) (line 193)
SlotDecrement(Node) == 0 - (1 + Node.refcount)

\* The second half of set_relation (lines 214-247): write the slot and count
\* the new target in.
set_relation_write(m, node_id, link) ==
    IF m.panic # NoPanic THEN m
    ELSE IF link.key # None
    THEN LET a == assert_node(m, link.key[1])
             m1 == a.m
             new_rel_node_id == a.id
         IN IF m1.nodes[node_id] = None
            THEN Raise(m1, "sanity error. relation just set")
            ELSE LET Node == m1.nodes[node_id][1]
                     m2 == [m1 EXCEPT !.nodes[node_id] =
                              Some([Node EXCEPT !.relations =
                                 WriteSlot(@, link.slot_id, Some(new_rel_node_id))])]
                 IN Propagate(m2, new_rel_node_id, SlotIncrement(Node), Len(m2.nodes))
    ELSE IF m.nodes[node_id] = None
         THEN Raise(m, "sanity error. relation Node not found in nodes")
         ELSE LET Node == m.nodes[node_id][1]
              IN [m EXCEPT !.nodes[node_id] =
                     Some([Node EXCEPT !.relations = WriteSlot(@, link.slot_id, None)])]

\* no change. bail out. do not increment or decrement (lines 188-191)
NoChange(rel_Node, link) == Some(rel_Node.key) = link.key

set_relation(m, node_id, link) ==
    IF m.panic # NoPanic THEN m
    ELSE IF m.nodes[node_id] = None
    THEN Raise(m, "sanity error. set relation on Node that does not exist")
    ELSE LET Node == m.nodes[node_id][1]
             occupant == IF link.slot_id + 1 <= Len(Node.relations)
                         THEN Node.relations[link.slot_id + 1] ELSE None
         IN IF occupant = None THEN set_relation_write(m, node_id, link)
            ELSE LET rel_node_id == occupant[1]
                 IN IF m.nodes[rel_node_id] = None
                    THEN Raise(m, "sanity error. relation node_id located, but not found in nodes")
                    ELSE IF NoChange(m.nodes[rel_node_id][1], link)
                    THEN m
                    ELSE set_relation_write(
                           Propagate(m, rel_node_id, SlotDecrement(Node), Len(m.nodes)),
                           node_id, link)

\* ----------------------------------------------------------- set_payload
RECURSIVE set_relations(_, _, _)
set_relations(m, node_id, dependencies) ==
    IF dependencies = <<>> THEN m
    ELSE set_relations(set_relation(m, node_id, Head(dependencies)), node_id,
                       Tail(dependencies))

set_payload(m, key, dependencies, payload) ==
    LET a == assert_node(m, key)
        node_id == a.id
        m1 == [a.m EXCEPT !.nodes[node_id] =
                  Some([a.m.nodes[node_id][1] EXCEPT !.payload = Some(payload)])]
    IN set_relations(m1, node_id, dependencies)

\* -------------------------------------------------------- remove_payload
\* mutant: the decrement leaves out the edge of the removed vertex itself
RemoveDecrementRefcountOnly(Node) == 0 - Node.refcount

\* decrement = 0 - (Node.refcount + 1) (line 106)
RemoveDecrement(Node) == 0 - (Node.refcount + 1)

RECURSIVE remove_decrement(_, _, _, _)
remove_decrement(m, relations, decrement, nodes_len) ==
    IF relations = <<>> \/ m.panic # NoPanic THEN m
    ELSE remove_decrement(Propagate(m, Head(relations), decrement, nodes_len),
                          Tail(relations), decrement, nodes_len)

\* mutant: the edge array of a vertex that stays is not cleared
remove_nodeKeepRelations(m, node_id) ==
    LET Node == m.nodes[node_id][1]
        nodes_len == Len(m.nodes)
        decrement == RemoveDecrement(Node)
        relations == FilterMap(Node.relations)
        full_remove == Node.refcount = 0
        m1 == IF full_remove
              THEN [m EXCEPT !.nodes[node_id] = None,
                             !.vacancies = Append(@, node_id)]
              ELSE [m EXCEPT !.nodes[node_id] =
                       Some([Node EXCEPT !.payload = None])]
    IN remove_decrement(m1, relations, decrement, nodes_len)

\* the body of `if let Some(node_id) = position(..)` (lines 98-137)
remove_node(m, node_id) ==
    LET Node == m.nodes[node_id][1]
        nodes_len == Len(m.nodes)
        decrement == RemoveDecrement(Node)
        relations == FilterMap(Node.relations)
        full_remove == Node.refcount = 0
        m1 == IF full_remove
              THEN [m EXCEPT !.nodes[node_id] = None,
                             !.vacancies = Append(@, node_id)]
              ELSE [m EXCEPT !.nodes[node_id] =
                       Some([Node EXCEPT !.relations = <<>>,
                                         !.payload = None])]
    IN remove_decrement(m1, relations, decrement, nodes_len)

\* mutant: a key that is not found removes the last allocated vertex
remove_payloadOrLast(m, key) ==
    LET node_id == Position(m.nodes, key)
        allocated == {i \in 1..Len(m.nodes) : m.nodes[i] # None}
    IN IF node_id # 0 THEN remove_node(m, node_id)
       ELSE IF allocated = {} THEN m
       ELSE remove_node(m, CHOOSE i \in allocated : \A j \in allocated : j <= i)

remove_payload(m, key) ==
    LET node_id == Position(m.nodes, key)
    IN IF node_id = 0 THEN m ELSE remove_node(m, node_id)

\* ----------------------------------------------------------- get_payload
get_payload(ns, key) ==
    LET node_id == Position(ns, key)
    IN IF node_id = 0 THEN None ELSE ns[node_id][1].payload

\* ----------------------------------------------------------- introspection
\* self.nodes.len()
len(ns) == Len(ns)

\* self.nodes.is_empty()
is_empty(ns) == ns = <<>>

\* nodes.iter().filter_map(|i| Some(Node.key) for a Some vertex).collect()
RECURSIVE keys(_)
keys(ns) ==
    IF ns = <<>> THEN <<>>
    ELSE (IF Head(ns) = None THEN <<>> ELSE <<Head(ns)[1].key>>) \o keys(Tail(ns))

\* ------------------------------------------------------- the state machine
Graph == [nodes |-> nodes, vacancies |-> vacancies, panic |-> panic, log |-> <<>>]

Install(m) ==
    /\ nodes' = m.nodes
    /\ vacancies' = m.vacancies
    /\ panic' = m.panic
    /\ ops' = ops + 1

Init ==
    /\ nodes = GraphNew.nodes
    /\ vacancies = GraphNew.vacancies
    /\ panic = GraphNew.panic
    /\ ops = 0

\* A call is made only while the process is alive (no panic so far).
SetPayload ==
    /\ panic = NoPanic
    /\ ops < MaxOps
    /\ \E key \in Keys, dependencies \in Dependencies, payload \in Payloads :
          Install(set_payload(Graph, key, dependencies, payload))

RemovePayload ==
    /\ panic = NoPanic
    /\ ops < MaxOps
    /\ \E key \in Keys : Install(remove_payload(Graph, key))

Next == SetPayload \/ RemovePayload

Spec == Init /\ [][Next]_vars

\* The same two calls, followed further: every payload is the value 1 (the
\* graph never reads a payload), and a call is taken while it leaves every
\* refcount at most MaxRefcount.
WithinBounds(m) ==
    \A i \in 1..Len(m.nodes) :
        m.nodes[i] # None => m.nodes[i][1].refcount <= MaxRefcount

DeepSetPayload ==
    /\ panic = NoPanic
    /\ ops < MaxDeepOps
    /\ \E key \in Keys, dependencies \in Dependencies :
          LET m == set_payload(Graph, key, dependencies, 1)
          IN WithinBounds(m) /\ Install(m)

DeepRemovePayload ==
    /\ panic = NoPanic
    /\ ops < MaxDeepOps
    /\ \E key \in Keys :
          LET m == remove_payload(Graph, key)
          IN WithinBounds(m) /\ Install(m)

DeepNext == DeepSetPayload \/ DeepRemovePayload

DeepSpec == Init /\ [][DeepNext]_vars

\* The chain scenario of test::context_manager_basic, in any order: key i
\* (i > 1) is upserted with slot 0 pointing at key i - 1, key 1 with no
\* dependencies, each key once.
ChainKeys == 1..ChainLen

ChainDependencies(i) ==
    IF i = 1 THEN <<>> ELSE <<[slot_id |-> 0, key |-> Some(i - 1)]>>

ChainUpsert ==
    /\ panic = NoPanic
    /\ \E i \in ChainKeys :
          /\ get_payload(nodes, i) = None
          /\ Install(set_payload(Graph, i, ChainDependencies(i), 1))

ChainSpec == Init /\ [][ChainUpsert]_vars

\* The scenario of test::context_manager_dual_indegree_zero, in any order and
\* with any number of two-entry chains: an odd key is upserted with no
\* dependencies, an even key i with slot 0 pointing at key i - 1, each key once.
DualKeys == 1..DualLen

DualDependencies(i) ==
    IF i % 2 = 1 THEN <<>> ELSE <<[slot_id |-> 0, key |-> Some(i - 1)]>>

DualUpsert ==
    /\ panic = NoPanic
    /\ \E i \in DualKeys :
          /\ get_payload(nodes, i) = None
          /\ Install(set_payload(Graph, i, DualDependencies(i), 1))

DualSpec == Init /\ [][DualUpsert]_vars

\* ------------------------------------------------- SubjectpayloadIter
\* Node.relations.iter().filter_map(..): the keys of the targets; the closure
\* panics on a target whose slot of the table is None.
RelationTargetMissing(ns, rels) ==
    \E s \in 1..Len(rels) : rels[s] # None /\ ns[rels[s][1]] = None

RECURSIVE RelationKeys(_, _)
RelationKeys(ns, rels) ==
    IF rels = <<>> THEN <<>>
    ELSE (IF Head(rels) = None THEN <<>> ELSE <<ns[Head(rels)[1]][1].key>>)
         \o RelationKeys(ns, Tail(rels))

\* slice::sort_by is a stable sort: an element goes after the elements that
\* compare less or equal and were there before it.
RECURSIVE SortInsert(_, _)

\* mutant: an element goes before the elements that compare equal (the order
\* of equal elements is reversed)
SortInsertBeforeEqual(sorted, x) ==
    IF sorted = <<>> THEN <<x>>
    ELSE IF sorted[Len(sorted)].refcount < x.refcount THEN Append(sorted, x)
    ELSE Append(SortInsert(SubSeq(sorted, 1, Len(sorted) - 1), x), sorted[Len(sorted)])

SortInsert(sorted, x) ==
    IF sorted = <<>> THEN <<x>>
    ELSE IF sorted[Len(sorted)].refcount <= x.refcount THEN Append(sorted, x)
    ELSE Append(SortInsert(SubSeq(sorted, 1, Len(sorted) - 1), x), sorted[Len(sorted)])

RECURSIVE SortByRefcount(_, _)
SortByRefcount(done, todo) ==
    IF todo = <<>> THEN done
    ELSE SortByRefcount(SortInsert(done, Head(todo)), Tail(todo))

RECURSIVE Snapshot(_, _)
Snapshot(ns, i) ==
    IF i > Len(ns) THEN <<>>
    ELSE (IF ns[i] # None /\ ns[i][1].payload # None
          THEN <<[key |-> ns[i][1].key,
                  refcount |-> ns[i][1].refcount,
                  payload |-> ns[i][1].payload[1],
                  to_keys |-> RelationKeys(ns, ns[i][1].relations)]>>
          ELSE <<>>) \o Snapshot(ns, i + 1)

\* SubjectpayloadIter::new: [panic, sorted]
SubjectpayloadIterNew(ns) ==
    IF \E i \in 1..Len(ns) : /\ ns[i] # None
                             /\ ns[i][1].payload # None
                             /\ RelationTargetMissing(ns, ns[i][1].relations)
    THEN [panic |-> "sanity error, subject_payload_iter", sorted |-> <<>>]
    ELSE [panic |-> NoPanic, sorted |-> SortByRefcount(<<>>, Snapshot(ns, 1))]

\* SubjectpayloadIter::next, called until it returns None: self.sorted.pop()
\* yields the last element first.
RECURSIVE Drain(_)
Drain(sorted) ==
    IF sorted = <<>> THEN <<>>
    ELSE <<sorted[Len(sorted)]>> \o Drain(SubSeq(sorted, 1, Len(sorted) - 1))

\* subject_payload_iter() drained: the records in the order they are yielded
IterYield(ns) == Drain(SubjectpayloadIterNew(ns).sorted)

\* ---------------------------------------------- vocabulary of the claims
Allocated(ns) == {i \in 1..Len(ns) : ns[i] # None}
Resident(ns) == {i \in Allocated(ns) : ns[i][1].payload # None}
Phantom(ns) == Allocated(ns) \ Resident(ns)
Refcount(ns, i) == ns[i][1].refcount
KeyOf(ns, i) == ns[i][1].key

\* the NodeIds the populated slots of vertex i hold
Targets(ns, i) ==
    IF ns[i] = None THEN {}
    ELSE {ns[i][1].relations[s][1] :
             s \in {t \in 1..Len(ns[i][1].relations) : ns[i][1].relations[t] # None}}

\* the vertices reachable from the set S by zero or more edges
RECURSIVE ReachFrom(_, _)
ReachFrom(ns, S) ==
    LET more == S \cup UNION {Targets(ns, i) : i \in S \cap (1..Len(ns))}
    IN IF more = S THEN S ELSE ReachFrom(ns, more)

\* the vertices reachable from i by one or more edges
ReachPlus(ns, i) == ReachFrom(ns, Targets(ns, i))

KeySeq(items) == [i \in 1..Len(items) |-> items[i].key]

\* C1. After any sequence of set_payload and remove_payload calls no vertex has
\* a negative refcount and no call has panicked.
RefcountNeverNegative ==
    /\ panic = NoPanic
    /\ \A i \in Allocated(nodes) : Refcount(nodes, i) >= 0

\* C2. In every state in which the graph can be used, subject_payload_iter
\* completes and yields exactly the vertices that hold a payload, each once,
\* in non-increasing order of refcount.
IterYieldsResidentsDescending ==
    panic = NoPanic =>
        LET it == SubjectpayloadIterNew(nodes)
            y == Drain(it.sorted)
        IN /\ it.panic = NoPanic
           /\ Len(y) = Cardinality(Resident(nodes))
           /\ {y[n].key : n \in 1..Len(y)} = {KeyOf(nodes, i) : i \in Resident(nodes)}
           /\ \A n \in 1..Len(y) :
                 \E i \in Resident(nodes) :
                    /\ KeyOf(nodes, i) = y[n].key
                    /\ Refcount(nodes, i) = y[n].refcount
                    /\ nodes[i][1].payload = Some(y[n].payload)
           /\ \A n \in 1..(Len(y) - 1) : y[n].refcount >= y[n + 1].refcount

\* C3. In every state in which the graph can be used, the refcount of an
\* allocated vertex is the number of distinct resident vertices that reach it
\* by a non-empty path.
RefcountIsReachingResidents ==
    panic = NoPanic =>
        \A v \in Allocated(nodes) :
            Refcount(nodes, v) =
                Cardinality({u \in Resident(nodes) : v \in ReachPlus(nodes, u)})

\* C7. In every state in which the graph can be used, every NodeId stored in a
\* relations array is the id of an allocated vertex (nodes[id] is Some).
EdgesTargetAllocated ==
    panic = NoPanic =>
        \A i \in Allocated(nodes) : \A j \in Targets(nodes, i) : nodes[j] # None

\* exactly the keys k1..kn of the chain have been upserted
ChainComplete(n) ==
    /\ {KeyOf(nodes, v) : v \in Allocated(nodes)} = 1..n
    /\ Resident(nodes) = Allocated(nodes)

\* C4. Once exactly the keys k1..kn of the chain have been upserted, in whatever
\* order, key ki has refcount n - i and the iterator yields k1, k2, ..., kn.
ChainOrder ==
    \A n \in 1..ChainLen :
        ChainComplete(n) =>
            /\ panic = NoPanic
            /\ \A i \in 1..n : Refcount(nodes, Position(nodes, i)) = n - i
            /\ SubjectpayloadIterNew(nodes).panic = NoPanic
            /\ KeySeq(IterYield(nodes)) = [i \in 1..n |-> i]

\* a chain of 4 upserted in the order k2, k3, k4, k1 (the dependency of the
\* first entry does not exist yet), yielding k1, k2, k3, k4
ChainOrderWitness ==
    /\ ChainComplete(4)
    /\ KeySeq([i \in 1..Len(nodes) |-> nodes[i][1]]) = <<2, 1, 3, 4>>
    /\ Refcount(nodes, Position(nodes, 1)) = 3
    /\ KeySeq(IterYield(nodes)) = <<1, 2, 3, 4>>

\* ------------------------------------------- the calls a state allows
Range(f) == {f[i] : i \in DOMAIN f}

\* the top-level increment calls that the next call on the graph can make
NextPropagations ==
    UNION ({Range(set_payload(Graph, k, d, p).log) :
               k \in Keys, d \in Dependencies, p \in Payloads}
           \cup {Range(remove_payload(Graph, k).log) : k \in Keys})

\* what C8 says of one top-level increment call
PropagationExact(call) ==
    LET R == ReachFrom(call.pre, {call.start})
    IN /\ Len(call.walk) <= Len(call.pre)
       /\ \A a, b \in 1..Len(call.walk) : a # b => call.walk[a] # call.walk[b]
       /\ call.returned =>
             /\ Range(call.walk) = R
             /\ Len(call.post) = Len(call.pre)
             /\ \A v \in 1..Len(call.pre) :
                   call.post[v] =
                      IF v \in R
                      THEN Some([call.pre[v][1] EXCEPT !.refcount = @ + call.delta])
                      ELSE call.pre[v]

\* C8. Every top-level increment call updates each vertex at most once (so the
\* walk ends, cycle or not), and a call that returns has added delta exactly
\* once to start and to every vertex reachable from start, and has changed
\* nothing else.
PropagationOnce ==
    panic = NoPanic => \A call \in NextPropagations : PropagationExact(call)

\* a returning call whose start lies on a cycle and that reaches some other
\* vertex from two different vertices (a diamond)
PropagationOnceWitness ==
    /\ panic = NoPanic
    /\ \E call \in NextPropagations :
          LET R == ReachFrom(call.pre, {call.start})
          IN /\ call.returned
             /\ call.start \in ReachPlus(call.pre, call.start)
             /\ \E v \in R \ {call.start} : \E u1, u2 \in R \ {v} :
                   /\ u1 # u2
                   /\ v \in Targets(call.pre, u1)
                   /\ v \in Targets(call.pre, u2)
             /\ \A v \in R : Refcount(call.post, v) = Refcount(call.pre, v) + call.delta

\* what C5 says of set_payload(key of b, [slot s -> D], p)
RepointMoves(b, s, D, p) ==
    LET a == nodes[b][1].relations[s + 1][1]
        m == set_payload(Graph, KeyOf(nodes, b), <<[slot_id |-> s, key |-> Some(D)]>>, p)
        d == Position(m.nodes, D)
        contribution == 1 + Refcount(nodes, b)
        Lost == ReachFrom(nodes, {a})
        Gained == ReachFrom(m.nodes, {d})
        Before(v) == IF v \in Allocated(nodes) THEN Refcount(nodes, v) ELSE 0
    IN /\ m.panic = NoPanic
       /\ m.nodes[b][1].relations[s + 1] = Some(d)
       /\ \A v \in Allocated(m.nodes) :
             Refcount(m.nodes, v) =
                Before(v) - (IF v \in Lost THEN contribution ELSE 0)
                          + (IF v \in Gained THEN contribution ELSE 0)

\* C5. Re-upserting a resident key B whose slot s holds A with slot s pointing
\* at a different key D completes; afterwards slot s of B holds D's vertex, A
\* and every vertex reachable from A have lost 1 + refcount(B), and D and every
\* vertex reachable from D have gained 1 + refcount(B) (refcount(B) as it was
\* before the call), and no other refcount has changed.
RepointMovesContribution ==
    panic = NoPanic =>
        \A b \in Resident(nodes), s \in SlotIds, D \in Keys, p \in Payloads :
            (/\ s + 1 <= Len(nodes[b][1].relations)
             /\ nodes[b][1].relations[s + 1] # None
             /\ nodes[nodes[b][1].relations[s + 1][1]] # None
             /\ KeyOf(nodes, nodes[b][1].relations[s + 1][1]) # D)
            => RepointMoves(b, s, D, p)

\* what C6 says of remove_payload(key of n)
RemoveSubtracts(n) ==
    LET m == remove_payload(Graph, KeyOf(nodes, n))
        decrement == Refcount(nodes, n) + 1
        Hits(v) == {s \in 1..Len(nodes[n][1].relations) :
                       /\ nodes[n][1].relations[s] # None
                       /\ v \in ReachFrom(m.nodes, {nodes[n][1].relations[s][1]})}
    IN /\ m.panic = NoPanic
       /\ \A v \in Allocated(m.nodes) :
             Refcount(m.nodes, v) = Refcount(nodes, v) - decrement * Cardinality(Hits(v))
       /\ SubjectpayloadIterNew(m.nodes).panic = NoPanic
       /\ \A i \in 1..Len(IterYield(m.nodes)) :
             IterYield(m.nodes)[i].key # KeyOf(nodes, n)

\* C6. remove_payload of a resident key k completes; for each populated slot of
\* k's vertex it has subtracted refcount(k) + 1 from the slot's target and from
\* everything reachable from that target, and the iterator built afterwards
\* does not yield k.
RemoveSubtractsContribution ==
    panic = NoPanic => \A n \in Resident(nodes) : RemoveSubtracts(n)

\* C9. In every state in which the graph can be used, set_payload(k, deps, p)
\* completes and get_payload(k) then returns Some(p).
UpsertThenGet ==
    panic = NoPanic =>
        \A k \in Keys, d \in Dependencies, p \in Payloads :
            LET m == set_payload(Graph, k, d, p)
            IN /\ m.panic = NoPanic
               /\ get_payload(m.nodes, k) = Some(p)

\* what C10 says of remove_payload(key of n)
TombstoneKeeps(n) ==
    LET k == KeyOf(nodes, n)
        m == remove_payload(Graph, k)
    IN /\ m.panic = NoPanic
       /\ m.nodes[n] = Some([key |-> k, refcount |-> Refcount(nodes, n),
                             payload |-> None, relations |-> <<>>])
       /\ \A u \in Allocated(nodes) \ {n} :
             /\ m.nodes[u] # None
             /\ m.nodes[u][1].relations = nodes[u][1].relations
       /\ \A d \in Dependencies, p \in Payloads :
             LET m2 == set_payload(m, k, d, p)
             IN /\ Position(m2.nodes, k) = n
                /\ Len(m2.nodes) >= Len(m.nodes)

\* C10. remove_payload(k) on a vertex with refcount > 0 completes and leaves the
\* vertex at its NodeId with its key and its refcount, without payload and
\* without edges; the edge arrays of the other vertices are untouched, and a
\* set_payload(k, ..) after it lands on the same NodeId.
TombstoneKeepsIdentity ==
    panic = NoPanic =>
        \A n \in Allocated(nodes) : Refcount(nodes, n) > 0 => TombstoneKeeps(n)

\* C11. In every state in which the graph can be used, no allocated vertex is
\* both without payload and at refcount 0.
NoUnreferencedPhantom ==
    panic = NoPanic =>
        \A i \in Phantom(nodes) : Refcount(nodes, i) # 0

\* the place of key k in what the iterator yields (0 when it is not yielded)
YieldIndex(ns, k) ==
    LET y == KeySeq(IterYield(ns))
        hits == {n \in 1..Len(y) : y[n] = k}
    IN IF hits = {} THEN 0 ELSE CHOOSE n \in hits : \A h \in hits : n <= h

\* the table holds exactly the given keys, in that order, all with a payload
TableIs(ks) ==
    /\ Len(nodes) = Len(ks)
    /\ Resident(nodes) = 1..Len(nodes)
    /\ \A i \in 1..Len(nodes) : KeyOf(nodes, i) = ks[i]

\* C12. After A->[], B->[A], C->[], D->[C] (keys 1, 2, 3, 4 in that order on an
\* empty graph) the iterator yields C, A, D, B; and however the two-entry
\* chains are upserted, a dependency is yielded before its dependent and, of
\* two resident entries with equal refcount, the one stored later in the table
\* is yielded first.
DualRootsOrder ==
    /\ panic = NoPanic
    /\ TableIs(<<1, 2, 3, 4>>) => KeySeq(IterYield(nodes)) = <<3, 1, 4, 2>>
    /\ \A i \in DualKeys :
          (i % 2 = 0 /\ get_payload(nodes, i) # None /\ get_payload(nodes, i - 1) # None)
          => YieldIndex(nodes, i - 1) < YieldIndex(nodes, i)
    /\ \A a, b \in Resident(nodes) :
          (a < b /\ Refcount(nodes, a) = Refcount(nodes, b))
          => YieldIndex(nodes, KeyOf(nodes, b)) < YieldIndex(nodes, KeyOf(nodes, a))

\* the four upserts of the test, made in the test's order
DualRootsOrderWitness ==
    /\ TableIs(<<1, 2, 3, 4>>)
    /\ [i \in 1..4 |-> Refcount(nodes, i)] = <<1, 0, 1, 0>>
    /\ KeySeq(IterYield(nodes)) = <<3, 1, 4, 2>>


\* the key held by slot slot_id of vertex i: None when the slot is empty or
\* beyond the edge array
SlotKey(ns, i, slot_id) ==
    LET rels == ns[i][1].relations
    IN IF slot_id + 1 > Len(rels) \/ rels[slot_id + 1] = None \/ ns[rels[slot_id + 1][1]] = None
       THEN None
       ELSE Some(KeyOf(ns, rels[slot_id + 1][1]))

\* the dependency lists of a single upsert: up to MaxLinks slot writes, applied
\* in order (a list may write a slot more than once)
MaxLinks == 2

LinkLists == SeqsUpTo(RelationLink, MaxLinks)

\* C13. Writing to a slot the key it already holds returns at once and leaves
\* the graph untouched; and an upsert repeated immediately after the same
\* upsert returns and leaves every refcount, every edge array, the vertex
\* table and the free list as they were after the first call.
SlotWriteIdempotent ==
    panic = NoPanic =>
        /\ \A i \in Resident(nodes) : \A slot_id \in SlotIds :
              SlotKey(nodes, i, slot_id) # None
              => set_relation(Graph, i, [slot_id |-> slot_id,
                                         key |-> SlotKey(nodes, i, slot_id)]) = Graph
        /\ \A key \in Keys : \A dependencies \in LinkLists : \A payload \in Payloads :
              LET once == set_payload(Graph, key, dependencies, payload)
                  twice == set_payload(once, key, dependencies, payload)
              IN once.panic = NoPanic =>
                    /\ twice.nodes = once.nodes
                    /\ twice.vacancies = once.vacancies
                    /\ twice.panic = NoPanic


\* C14. No two allocated vertices carry the same key, and assert_node for a key
\* that has a vertex (with or without payload) returns that vertex and leaves
\* the table and the free list alone.
KeysUnique ==
    /\ \A i, j \in Allocated(nodes) : KeyOf(nodes, i) = KeyOf(nodes, j) => i = j
    /\ \A i \in Allocated(nodes) :
          assert_node(Graph, KeyOf(nodes, i)) = [m |-> Graph, id |-> i]

\* a payload-less vertex is looked up while a free slot is on offer
KeysUniqueWitness ==
    /\ panic = NoPanic
    /\ vacancies # <<>>
    /\ Resident(nodes) # {}
    /\ \E i \in Phantom(nodes) :
          /\ Refcount(nodes, i) > 0
          /\ assert_node(Graph, KeyOf(nodes, i)).id = i


\* C15. remove_payload of a key that has no vertex returns the graph as it was,
\* without a panic and without a propagation; get_payload answers None for a
\* key that has no vertex or whose vertex has no payload.
MissingKeyIsNoError ==
    panic = NoPanic =>
        \A key \in Keys :
            /\ Position(nodes, key) = 0
               => /\ remove_payload(Graph, key) = Graph
                  /\ get_payload(nodes, key) = None
            /\ (Position(nodes, key) \in Phantom(nodes))
               => get_payload(nodes, key) = None

\* a graph with a resident vertex, a payload-less one and a freed slot, and a
\* key that has no vertex
MissingKeyIsNoErrorWitness ==
    /\ panic = NoPanic
    /\ Resident(nodes) # {}
    /\ Phantom(nodes) # {}
    /\ \E key \in Keys :
          /\ Position(nodes, key) = 0
          /\ remove_payload(Graph, key) = Graph
          /\ \E i \in 1..Len(nodes) : nodes[i] = None


\* C16. In every state in which the graph can be used, len() is the number of
\* entries in the graph, the number of keys that keys() returns, and is_empty()
\* is true exactly when the graph has no entry.
LenCountsEntries ==
    panic = NoPanic =>
        /\ len(nodes) = Len(keys(nodes))
        /\ is_empty(nodes) <=> keys(nodes) = <<>>


\* C17. In every state in which the graph can be used, an allocated vertex with
\* refcount 0 is the target of no populated slot of any vertex.
ZeroRefcountUntargeted ==
    panic = NoPanic =>
        \A v \in Allocated(nodes) :
            Refcount(nodes, v) = 0 => \A u \in Allocated(nodes) : v \notin Targets(nodes, u)


\* slot slot_id of vertex i holds no NodeId
SlotEmpty(ns, i, slot_id) ==
    \/ slot_id + 1 > Len(ns[i][1].relations)
    \/ ns[i][1].relations[slot_id + 1] = None

\* C18. In every state in which the graph can be used, setting an empty slot of
\* a resident vertex to a key and then clearing that slot returns, and every
\* vertex that existed before the set has the refcount it had before the set.
SetThenClearRestores ==
    panic = NoPanic =>
        \A v \in Resident(nodes) : \A slot_id \in SlotIds : \A key \in Keys :
            SlotEmpty(nodes, v, slot_id)
            => LET set == set_relation(Graph, v, [slot_id |-> slot_id, key |-> Some(key)])
                   cleared == set_relation(set, v, [slot_id |-> slot_id, key |-> None])
               IN /\ cleared.panic = NoPanic
                  /\ \A i \in Allocated(nodes) :
                        /\ cleared.nodes[i] # None
                        /\ Refcount(cleared.nodes, i) = Refcount(nodes, i)


\* C19. A vertex without a payload has no populated slot; and when
\* remove_payload propagates its decrements, the removed vertex is already
\* freed or already has an empty edge array.
PayloadlessHoldsNoEdge ==
    /\ \A i \in Phantom(nodes) : Targets(nodes, i) = {}
    /\ panic = NoPanic =>
          \A key \in Keys :
              LET node_id == Position(nodes, key)
                  removed == remove_payload(Graph, key)
              IN node_id # 0 =>
                    /\ removed.nodes[node_id] # None => removed.nodes[node_id][1].relations = <<>>
                    /\ \A n \in 1..Len(removed.log) :
                          \/ removed.log[n].pre[node_id] = None
                          \/ removed.log[n].pre[node_id][1].relations = <<>>

\* a vertex that is referenced and holds an edge is removed: it stays as a
\* payload-less vertex and its target is decremented
PayloadlessHoldsNoEdgeWitness ==
    /\ panic = NoPanic
    /\ \E i \in Resident(nodes) :
          LET removed == remove_payload(Graph, KeyOf(nodes, i))
          IN /\ Refcount(nodes, i) > 0
             /\ Targets(nodes, i) # {}
             /\ removed.panic = NoPanic
             /\ removed.log # <<>>
             /\ i \in Phantom(removed.nodes)


\* C20. The free list holds exactly the indices of the freed slots of the
\* table, each once.
VacanciesAreFreedSlots ==
    /\ \A n \in 1..Len(vacancies) : vacancies[n] \in 1..Len(nodes) /\ nodes[vacancies[n]] = None
    /\ \A i \in 1..Len(nodes) : nodes[i] = None => \E n \in 1..Len(vacancies) : vacancies[n] = i
    /\ \A n, k \in 1..Len(vacancies) : vacancies[n] = vacancies[k] => n = k

\* two slots are free at once, and a free slot is re-filled by the next upsert
VacanciesAreFreedSlotsWitness ==
    /\ panic = NoPanic
    /\ Len(vacancies) >= 2
    /\ Allocated(nodes) # {}
    /\ \E key \in Keys :
          LET a == assert_node(Graph, key)
          IN /\ a.id = vacancies[Len(vacancies)]
             /\ Len(a.m.vacancies) = Len(vacancies) - 1


\* no populated slot holds the id of a freed slot of the table
NoEdgeToFreedSlot(ns) ==
    \A i \in Allocated(ns) : \A j \in Targets(ns, i) : ns[j] # None

\* C21. In every state in which the graph can be used and no edge targets a
\* freed slot, for a key that has no vertex and dependencies that do not name
\* it, set_payload followed at once by remove_payload of that key returns,
\* leaves the key without a vertex and its slot freed and on the free list,
\* and leaves every vertex that existed before (refcount, payload, edge array)
\* as it was.
RemoveUndoesFreshUpsert ==
    (panic = NoPanic /\ NoEdgeToFreedSlot(nodes)) =>
        \A key \in Keys : \A dependencies \in Dependencies : \A payload \in Payloads :
            (/\ Position(nodes, key) = 0
             /\ \A n \in 1..Len(dependencies) : dependencies[n].key # Some(key))
            => LET upserted == set_payload(Graph, key, dependencies, payload)
                   node_id == Position(upserted.nodes, key)
                   removed == remove_payload(upserted, key)
               IN /\ removed.panic = NoPanic
                  /\ Position(removed.nodes, key) = 0
                  /\ removed.nodes[node_id] = None
                  /\ \E n \in 1..Len(removed.vacancies) : removed.vacancies[n] = node_id
                  /\ \A i \in Allocated(nodes) : removed.nodes[i] = nodes[i]

\* a fresh key is upserted into a freed slot with a dependency on a vertex that
\* itself has a dependency, so the increment and the decrement are propagated
\* over more than one vertex
RemoveUndoesFreshUpsertWitness ==
    /\ panic = NoPanic
    /\ NoEdgeToFreedSlot(nodes)
    /\ vacancies # <<>>
    /\ \E key \in Keys : \E dependencies \in Dependencies :
          LET upserted == set_payload(Graph, key, dependencies, 1)
              removed == remove_payload(upserted, key)
          IN /\ Position(nodes, key) = 0
             /\ \A n \in 1..Len(dependencies) : dependencies[n].key # Some(key)
             /\ \E n \in 1..Len(upserted.log) : Len(upserted.log[n].walk) >= 2
             /\ upserted.nodes # nodes
             /\ removed.panic = NoPanic
             /\ \A i \in Allocated(nodes) : removed.nodes[i] = nodes[i]

====
